---- MODULE Spec2Model ----
(***************************************************************************)
(* Model of boa/abi/contract.py: ABIContractFactory (from_abi_dict, at),   *)
(* ABIContract (construction, method_id_map, marshal_to_python,            *)
(* stack_trace, deployer) and _EvmContract.handle_error.                   *)
(*                                                                         *)
(* Python objects live in heaps indexed by position: descs holds the       *)
(* ABIFunction objects built by from_abi_dict, factories the               *)
(* ABIContractFactory objects, contracts the ABIContract objects (also     *)
(* the ones a failing at() built and dropped).  A list of functions is a   *)
(* sequence of indices into descs: every factory and every contract of one *)
(* ABI holds the same ABIFunction objects.                                 *)
(***************************************************************************)
EXTENDS Integers, Sequences, FiniteSets, TLC

VARIABLES
    descs,       \* heap of ABIFunction objects (records), in creation order
    warned,      \* names from_abi_dict has warned about, in order
    factories,   \* heap of ABIContractFactory objects
    code,        \* env.vm.state: the addresses that host bytecode
    registry,    \* Env address -> Contract registry (0: no entry)
    contracts,   \* heap of ABIContract objects
    fnContract,  \* the `contract` attribute of each ABIFunction object (0: unset)
    cache,       \* instance __dict__ slot of method_id_map, per contract
    last,        \* outcome of the last operation
    build,       \* whether the interpreter's cached_property takes a lock
    lock,        \* holder of that lock (0: free)
    tpc,         \* per thread: position inside cached_property.__get__
    tval,        \* per thread: the map (object) it holds / returned
    maps         \* heap of dict objects built by method_id_map's body: owner contract

vars == <<descs, warned, factories, code, registry, contracts, fnContract,
          cache, last, build, lock, tpc, tval, maps>>

----------------------------------------------------------------------------
(* Bounds *)

MaxAbi == 3
MaxContracts == 3
MaxDepth == 2
NumAddr == 2
NumThreads == 2

Addresses == 1..NumAddr
Threads == 1..NumThreads

----------------------------------------------------------------------------
(* Values *)

\* Optional[str] None for a filename / name: the empty path.
None == <<>>

\* A path is the sequence of its components.
NamePool == {None, <<"abis", "Token.json">>}

\* An address as callers and the decoder hand it over, and as Address(...) keeps it.
RawForms == {"hex"}
RawAddress(n, form) == [n |-> n, form |-> form]
AddressInputs == {RawAddress(n, f) : n \in Addresses, f \in RawForms \cup {"Address"}}

\* boa.environment.Address: the normalized address value; normalizing an
\* already normalized address changes nothing.
Address(x) == [n |-> x.n, form |-> "Address"]

\* Address.canonical_address: the canonical byte form, the registry's key.
canonical_address(a) == a.n

\* ABI entries (raw descriptors).  The function names are names of no
\* member of ABIContract (address, deployer, env, ...): setattr on such a
\* name is outside this model.
AbiEntry(type, name, inputs) == [type |-> type, name |-> name, inputs |-> inputs]
EntryPool ==
    { AbiEntry("function", "f", <<"uint256">>),
      AbiEntry("function", "g", <<>>),
      AbiEntry("function", "f", <<"address">>),
      AbiEntry("function", "burn", <<"uint256">>),
      AbiEntry("event", "Ev", <<>>) }

\* The 4-byte selector of a canonical signature.  The selector is a
\* truncated hash: f(address) and burn(uint256) stand for two signatures
\* that share their first four bytes.
Selector(name, inputs) ==
    CASE name = "f" /\ inputs = <<"uint256">> -> <<0, 0, 0, 1>>
      [] name = "g" -> <<0, 0, 0, 2>>
      [] name = "f" /\ inputs = <<"address">> -> <<0, 0, 1, 0>>
      [] name = "burn" -> <<0, 0, 1, 0>>
      [] OTHER -> <<1, 1, 1, 1>>

\* ABIFunction(item, contract_name): name, method_id, full_signature.
ABIFunction(item, contract_name) ==
    [name |-> item.name,
     method_id |-> Selector(item.name, item.inputs),
     full_signature |-> <<item.name>> \o item.inputs]

\* os.path.basename
basename(path) == IF path = <<>> THEN <<>> ELSE <<path[Len(path)]>>

SeqsUpTo(S, n) == UNION {[1..k -> S] : k \in 0..n}

RECURSIVE SelectSeq2(_, _)
\* [x for x in s if Test(x)] with Test = "type is function"
SelectSeq2(s, type) ==
    IF s = <<>> THEN <<>>
    ELSE IF Head(s).type = type THEN <<Head(s)>> \o SelectSeq2(Tail(s), type)
    ELSE SelectSeq2(Tail(s), type)

Range(s) == {s[i] : i \in DOMAIN s}

----------------------------------------------------------------------------
(* ABIContract construction *)

RECURSIVE groupby(_, _)
\* itertools.groupby(functions, key=attrgetter("name")): one group per run of
\* consecutive descriptors with the same name.  acc is the groups so far.
groupby(fs, acc) ==
    IF fs = <<>> THEN acc
    ELSE LET d == Head(fs)
             n == Len(acc)
         IN IF n > 0 /\ acc[n].key = descs[d].name
            THEN groupby(Tail(fs),
                         [acc EXCEPT ![n].functions = Append(@, d)])
            ELSE groupby(Tail(fs),
                         Append(acc, [key |-> descs[d].name, functions |-> <<d>>]))

\* What line 73 picks for one group: the descriptor itself (a reference to
\* the shared ABIFunction object, whose `contract` attribute is
\* fnContract[d]) or a fresh ABIOverload object (its `contract` attribute
\* is kept in the record).
Exposed(group, self) ==
    IF Len(group.functions) = 1
    THEN [kind |-> "ABIFunction", functions |-> group.functions, contract |-> 0]
    ELSE [kind |-> "ABIOverload", functions |-> group.functions, contract |-> self]

RECURSIVE SetAttrs(_, _, _)
\* The loop of lines 71-75, as far as setattr goes: a later group
\* with the same name replaces the attribute an earlier one set.
SetAttrs(groups, self, attrs) ==
    IF groups = <<>> THEN attrs
    ELSE LET g == Head(groups)
         IN SetAttrs(Tail(groups), self,
                [k \in DOMAIN attrs \cup {g.key} |->
                    IF k = g.key THEN Exposed(g, self) ELSE attrs[k]])

\* The loop of lines 71-75, as far as `fn.contract = self` goes: the
\* ABIFunction objects whose attribute the construction of `self` writes.
Rebound(fs) ==
    {g.functions[1] : g \in {x \in Range(groupby(fs, <<>>)) : Len(x.functions) = 1}}

\* The ABIContract object built by ABIContract(name, functions, address, filename).
ABIContract(name, functions, address, filename, self) ==
    [name |-> name,
     functions |-> functions,
     address |-> Address(address),
     filename |-> filename,
     attrs |-> SetAttrs(groupby(functions, <<>>), self, <<>>)]

\* The contract an exposed attribute calls back into.
BoundContract(c, attr) ==
    LET e == contracts[c].attrs[attr]
    IN IF e.kind = "ABIFunction" THEN fnContract[e.functions[1]] ELSE e.contract

----------------------------------------------------------------------------
(* method_id_map *)

RECURSIVE DictComp(_, _)
\* {function.method_id: function for function in fs}: a later descriptor
\* with the same method id replaces the earlier one.
DictComp(fs, acc) ==
    IF fs = <<>> THEN acc
    ELSE LET d == Head(fs)
             k == descs[d].method_id
         IN DictComp(Tail(fs),
                [m \in DOMAIN acc \cup {k} |-> IF m = k THEN d ELSE acc[m]])

method_id_map_first_only(c) ==
    DictComp(IF c.functions = <<>> THEN <<>> ELSE <<Head(c.functions)>>, <<>>)

\* The body of method_id_map (line 81) for contract record c.
method_id_map_body(c) == DictComp(c.functions, <<>>)

\* cached_property lookup, single-threaded: the map object a read of
\* c.method_id_map returns, given the heap of map objects after the read.
NoMap == 0

----------------------------------------------------------------------------
(* Environment *)

get_code_unchecked(address) == TRUE

\* ret.env.vm.state.get_code(address.canonical_address), as a truth value.
get_code(address) == canonical_address(address) \in code

\* Env.register_contract(address, obj)
register_contract(reg, address, obj) ==
    [reg EXCEPT ![canonical_address(address)] = obj]

\* Env.lookup_contract(address): 0 stands for None.
lookup_contract(reg, n) == reg[n]

----------------------------------------------------------------------------
(* ABIContractFactory *)

ABIContractFactory(name, functions, filename) ==
    [name |-> name, functions |-> functions, filename |-> filename]

RECURSIVE CounterWarnings(_, _)
\* The names Counter(f.name for f in functions) counts more than once, in
\* the order of their first occurrence (lines 140-146).
CounterWarnings(fs, seen) ==
    IF fs = <<>> THEN <<>>
    ELSE LET n == Head(fs).name
             again == Cardinality({i \in DOMAIN fs : fs[i].name = n}) > 1
         IN (IF n \notin seen /\ again THEN <<n>> ELSE <<>>)
            \o CounterWarnings(Tail(fs), seen \cup {n})

\* ABIContractFactory.from_abi_dict(abi, name)
from_abi_dict(abi, name) ==
    /\ factories = <<>>
    /\ LET name1 == IF name = None THEN <<"<anonymous contract>">> ELSE name
           items == SelectSeq2(abi, "function")
           functions == [i \in DOMAIN items |-> ABIFunction(items[i], name1)]
       IN /\ descs' = functions
          /\ fnContract' = [d \in DOMAIN functions |-> 0]
          /\ warned' = CounterWarnings(functions, {})
          /\ factories' = <<ABIContractFactory(basename(name1), [i \in DOMAIN items |-> i], name1)>>
          /\ last' = [op |-> "from_abi_dict"]
    /\ UNCHANGED <<code, registry, contracts, cache, build, lock, tpc, tval, maps>>

deployer_without_functions(c) == ABIContractFactory(c.name, <<>>, None)

\* ABIContract.deployer (line 109), for contract record c.
deployer(c) == ABIContractFactory(c.name, c.functions, None)

\* Position of value x in sequence s, Len(s) + 1 when absent.
IndexOf(s, x) ==
    IF \E i \in DOMAIN s : s[i] = x
    THEN CHOOSE i \in DOMAIN s : s[i] = x
    ELSE Len(s) + 1

\* A caller reads c.deployer and keeps the factory.  A factory is never
\* mutated, so the heap keeps one object per value.
Deployer(c) ==
    /\ c \in DOMAIN contracts
    /\ contracts[c].live
    /\ LET F == deployer(contracts[c])
           f == IndexOf(factories, F)
       IN /\ factories' = IF f \in DOMAIN factories THEN factories
                          ELSE Append(factories, F)
          /\ last' = [op |-> "deployer", contract |-> c, factory |-> f]
    /\ UNCHANGED <<descs, warned, code, registry, contracts, fnContract, cache,
                   build, lock, tpc, tval, maps>>

\* ABIContractFactory.at(address) on factory object f.
at(f, address) ==
    /\ f \in DOMAIN factories
    /\ Len(contracts) < MaxContracts
    /\ LET F == factories[f]
           self == Len(contracts) + 1
           addr == Address(address)
           ret == ABIContract(F.name, F.functions, addr, F.filename, self)
           bytecode == get_code(addr)
       IN /\ fnContract' = [d \in DOMAIN fnContract |->
                              IF d \in Rebound(F.functions) THEN self ELSE fnContract[d]]
          /\ contracts' = Append(contracts, [ret EXCEPT !.attrs = @] @@ [live |-> bytecode])
          /\ cache' = Append(cache, NoMap)
          /\ IF ~bytecode
             THEN /\ registry' = registry
                  /\ last' = [op |-> "at", factory |-> f, address |-> address,
                              outcome |-> "ValueError", contract |-> self,
                              registry_before |-> registry]
             ELSE /\ registry' = register_contract(registry, addr, self)
                  /\ last' = [op |-> "at", factory |-> f, address |-> address,
                              outcome |-> "return", contract |-> self,
                              registry_before |-> registry]
    /\ UNCHANGED <<descs, warned, factories, code, build, lock, tpc, tval, maps>>

\* A single-threaded read of c.method_id_map (cached_property): the body runs
\* when the instance holds no cached value, and its result is stored.
ReadMethodIdMap(c) ==
    /\ c \in DOMAIN contracts
    /\ contracts[c].live
    /\ IF cache[c] = NoMap
       THEN /\ maps' = Append(maps, [owner |-> c, map |-> method_id_map_body(contracts[c])])
            /\ cache' = [cache EXCEPT ![c] = Len(maps) + 1]
       ELSE UNCHANGED <<maps, cache>>
    /\ last' = [op |-> "method_id_map", contract |-> c, value |-> cache'[c],
                first |-> cache[c] = NoMap]
    /\ UNCHANGED <<descs, warned, factories, code, registry, contracts, fnContract,
                   build, lock, tpc, tval>>

----------------------------------------------------------------------------
(* Specification of binding: one ABI family, several contracts *)

F1 == AbiEntry("function", "f", <<"uint256">>)
F2 == AbiEntry("function", "f", <<"address">>)
G == AbiEntry("function", "g", <<>>)
Burn == AbiEntry("function", "burn", <<"uint256">>)
Ev == AbiEntry("event", "Ev", <<>>)

BindAbis == {<<F1>>, <<F1, Ev, G>>, <<F1, F2>>, <<G, F1, F2>>}

\* Nothing built yet.
NoObjects ==
    /\ descs = <<>>
    /\ warned = <<>>
    /\ factories = <<>>
    /\ registry = [n \in Addresses |-> 0]
    /\ contracts = <<>>
    /\ fnContract = <<>>
    /\ cache = <<>>
    /\ last = [op |-> "init"]
    /\ lock = 0
    /\ tpc = [t \in Threads |-> "idle"]
    /\ tval = [t \in Threads |-> [contract |-> 0, val |-> NoMap]]
    /\ maps = <<>>

Init ==
    /\ NoObjects
    /\ code \in SUBSET Addresses
    /\ build = "lockfree"

FromAbiDict == \E abi \in BindAbis : from_abi_dict(abi, <<"abis", "Token.json">>)
At == \E f \in DOMAIN factories, address \in AddressInputs : at(f, address)
ReadDeployer == \E c \in DOMAIN contracts : Deployer(c)

Next == FromAbiDict \/ At \/ ReadDeployer

Spec == Init /\ [][Next]_vars

----------------------------------------------------------------------------
(* Specification of the function tables: every ABI, one contract *)

Abis == SeqsUpTo(EntryPool, MaxAbi)

TableFromAbiDict == \E abi \in Abis, name \in NamePool : from_abi_dict(abi, name)
TableAt == contracts = <<>> /\ \E address \in AddressInputs : at(1, address)
ReadMap == \E c \in DOMAIN contracts : ReadMethodIdMap(c)

TableNext == TableFromAbiDict \/ TableAt \/ ReadMap

TableSpec == Init /\ [][TableNext]_vars

----------------------------------------------------------------------------
(* Result marshalling and stack-trace reconstruction *)

\* A decoded value: an integer, an address as the decoder returns it, an
\* Address, or a list of those.
IntValue(n) == [n |-> n, form |-> "int"]
ListValue(items) == [items |-> items, form |-> "list"]

TypeTags == {"address", "address[]", "uint256", "address[2]"}

\* A value the decoder returns for a tag; v picks one of two payloads.
SampleValue(tag, v) ==
    CASE tag = "address" -> RawAddress(v, "hex")
      [] tag = "address[]" ->
            IF v = 1 THEN ListValue(<<>>)
            ELSE ListValue(<<RawAddress(2, "hex"), RawAddress(1, "hex")>>)
      [] tag = "uint256" -> IntValue(v)
      [] OTHER -> ListValue(<<RawAddress(v, "hex"), RawAddress(1, "hex")>>)

\* An output payload: the ABI encoding of `values` as `types`.
Encode(types, v) ==
    [types |-> types, values |-> [i \in DOMAIN types |-> SampleValue(types[i], v)]]

\* eth_abi.decode(types, output): the values, when the payload encodes
\* exactly these types; it raises otherwise.
DecodeOk(types, output) == output.types = types
decode(types, output) == output.values

\* zip(a, b): as long as the shorter.
ZipLen(a, b) == IF Len(a) <= Len(b) THEN Len(a) ELSE Len(b)

decode_addresses_every_tag(abi_type, decoded) ==
    IF decoded.form = "hex" THEN Address(decoded)
    ELSE IF decoded.form = "list"
    THEN ListValue([i \in DOMAIN decoded.items |-> Address(decoded.items[i])])
    ELSE decoded

\* _decode_addresses(abi_type, decoded)
decode_addresses(abi_type, decoded) ==
    IF abi_type = "address" THEN Address(decoded)
    ELSE IF abi_type = "address[]"
    THEN ListValue([i \in DOMAIN decoded.items |-> Address(decoded.items[i])])
    ELSE decoded

\* A computation result.
Computation(is_error, output, data, code_address, children) ==
    [is_error |-> is_error, output |-> output, data |-> data,
     code_address |-> code_address, children |-> children]

\* bytes(data[:4])
FirstFour(data) == SubSeq(data, 1, IF Len(data) < 4 THEN Len(data) ELSE 4)

calldata_method_id(computation) == FirstFour(computation.data)

HexDigits == <<"0", "1", "2", "3", "4", "5", "6", "7",
               "8", "9", "a", "b", "c", "d", "e", "f">>

RECURSIVE hex(_)
\* bytes.hex(): two digits per byte.
hex(bytes) ==
    IF bytes = <<>> THEN <<>>
    ELSE <<HexDigits[(Head(bytes) \div 16) + 1], HexDigits[(Head(bytes) % 16) + 1]>>
         \o hex(Tail(bytes))

\* ABIContract.__repr__ (lines 111-113)
repr(c) == [name |-> c.name, address |-> c.address, filename |-> c.filename]

\* One line of a StackTrace.
TraceLine(marker, where, detail) ==
    [marker |-> marker, contract |-> where, detail |-> detail]

\* The map a read of c.method_id_map yields in the current state.
MapOf(c) ==
    IF cache[c] = NoMap THEN method_id_map_body(contracts[c]) ELSE maps[cache[c]].map

stack_trace_msg_always_unknown(c, computation) ==
    TraceLine("unknown method id", repr(contracts[c]),
              <<"0x">> \o hex(calldata_method_id(computation)))

\* Lines 96-102 of stack_trace: the line contract c contributes.
stack_trace_msg(c, computation) ==
    LET id == calldata_method_id(computation)
    IN IF id \in DOMAIN MapOf(c)
       THEN TraceLine("unknown location in", repr(contracts[c]),
                      descs[MapOf(c)[id]].full_signature)
       ELSE TraceLine("unknown method id", repr(contracts[c]), <<"0x">> \o hex(id))

\* The failing sub-call the walk follows (the last one that failed), 0
\* when there is none.
FailingChild(computation) ==
    LET failing == {i \in DOMAIN computation.children : computation.children[i].is_error}
    IN IF failing = {} THEN 0
       ELSE CHOOSE i \in failing : \A j \in failing : j <= i

\* The generic line for a sub-call whose target has no registered contract.
UnknownContractLine(computation) ==
    TraceLine("unknown contract", [n |-> computation.code_address, form |-> "bytes"], <<>>)

RECURSIVE stack_trace(_, _), handle_child_trace(_, _), VisitedBy(_, _), VisitedBelow(_)

\* _handle_child_trace(computation, env, return_trace): the lines of the
\* failing sub-calls, innermost first, put in front of return_trace.  A
\* registered target contributes through its own stack_trace; an
\* unregistered one gets the generic line, no contract routine runs for
\* it, and the walk goes on to the deepest failing call.
handle_child_trace(computation, return_trace) ==
    LET i == FailingChild(computation)
    IN IF i = 0 THEN return_trace
       ELSE LET child == computation.children[i]
                child_obj == lookup_contract(registry, child.code_address)
            IN IF child_obj = 0
               THEN handle_child_trace(child, <<UnknownContractLine(child)>>)
                    \o return_trace
               ELSE stack_trace(child_obj, child) \o return_trace

stack_trace_own_line_only(c, computation) == <<stack_trace_msg(c, computation)>>

\* ABIContract.stack_trace(computation) of contract c (lines 95-105)
stack_trace(c, computation) ==
    handle_child_trace(computation, <<stack_trace_msg(c, computation)>>)

\* The contracts whose method_id_map the reconstruction reads, in order.
VisitedBelow(computation) ==
    LET i == FailingChild(computation)
    IN IF i = 0 THEN <<>>
       ELSE LET child == computation.children[i]
                child_obj == lookup_contract(registry, child.code_address)
            IN IF child_obj = 0 THEN VisitedBelow(child)
               ELSE VisitedBy(child_obj, child)

VisitedBy(c, computation) == <<c>> \o VisitedBelow(computation)

RECURSIVE ReadAll(_, _)
\* The heap of map objects and the cache slots after the contracts of
\* `visited` have each read their method_id_map, in order.
ReadAll(visited, st) ==
    IF visited = <<>> THEN st
    ELSE LET c == Head(visited)
         IN IF st.cache[c] # NoMap THEN ReadAll(Tail(visited), st)
            ELSE ReadAll(Tail(visited),
                    [maps |-> Append(st.maps,
                                [owner |-> c, map |-> method_id_map_body(contracts[c])]),
                     cache |-> [st.cache EXCEPT ![c] = Len(st.maps) + 1]])

handle_error_swallow(c, computation) ==
    [kind |-> "return", error |-> "", value |-> <<>>, decoded |-> FALSE]

\* _EvmContract.handle_error(computation): raises BoaError(stack_trace);
\* stripping the internal frames leaves the trace as it is.
handle_error(c, computation) ==
    [kind |-> "raise", error |-> "BoaError",
     value |-> stack_trace(c, computation), decoded |-> FALSE]

\* ABIContract.marshal_to_python(computation, abi_type) of contract c: what
\* the call ends with, and whether it called decode.
marshal_to_python(c, computation, abi_type) ==
    IF computation.is_error THEN handle_error(c, computation)
    ELSE IF ~DecodeOk(abi_type, computation.output)
    THEN [kind |-> "raise", error |-> "DecodingError", value |-> <<>>, decoded |-> TRUE]
    ELSE LET decoded == decode(abi_type, computation.output)
         IN [kind |-> "return", error |-> "",
             value |-> [i \in 1..ZipLen(abi_type, decoded) |->
                           decode_addresses(abi_type[i], decoded[i])],
             decoded |-> TRUE]

\* A caller invokes c.marshal_to_python(computation, abi_type); calls are
\* sequential, the caller takes the outcome before it calls again.
Marshal(c, computation, abi_type) ==
    /\ c \in DOMAIN contracts
    /\ contracts[c].live
    /\ last.op # "marshal_to_python"
    /\ LET st == IF computation.is_error
                 THEN ReadAll(VisitedBy(c, computation), [maps |-> maps, cache |-> cache])
                 ELSE [maps |-> maps, cache |-> cache]
       IN /\ maps' = st.maps
          /\ cache' = st.cache
    /\ last' = [op |-> "marshal_to_python", contract |-> c,
                computation |-> computation, abi_type |-> abi_type,
                outcome |-> marshal_to_python(c, computation, abi_type)]
    /\ UNCHANGED <<descs, warned, factories, code, registry, contracts, fnContract,
                   build, lock, tpc, tval>>

----------------------------------------------------------------------------
(* Specifications of calls: one ABI; OutputSpec marshals successful
   computations on one contract, CallSpec failed ones on contracts at
   several addresses *)

MaxTypes == 2

CallAbi == <<G, F2, Burn>>

TypeSeqs == SeqsUpTo(TypeTags, MaxTypes)

NoOutput == Encode(<<>>, 1)

\* Call inputs: g() followed by an argument byte, a selector two
\* descriptors share, a selector of no descriptor, and three bytes only.
ChildData == {<<0, 0, 0, 2, 9>>}
TopData == {<<0, 0, 0, 2, 9>>, <<0, 0, 1, 0>>, <<0, 0, 26, 7>>, <<0, 0, 2>>}

OkChild == Computation(FALSE, NoOutput, <<>>, 1, <<>>)

RECURSIVE SubCalls(_)
\* The sub-calls with at most d failing calls nested below them.
SubCalls(d) ==
    {OkChild} \cup
    { Computation(TRUE, NoOutput, data, a, ch) :
        data \in ChildData, a \in Addresses,
        ch \in {<<>>} \cup (IF d = 0 THEN {} ELSE {<<x>> : x \in SubCalls(d - 1)}) }

\* The children lists of a failed outer call: no sub-call, one sub-call,
\* or a successful sub-call followed by a failing one.
TopChildren ==
    {<<>>} \cup
    (IF MaxDepth = 0 THEN {}
     ELSE {<<x>> : x \in SubCalls(MaxDepth - 1)}
          \cup {<<OkChild, x>> : x \in SubCalls(MaxDepth - 1) \ {OkChild}})

\* Successful outputs, each with the type tags the caller decodes it against.
Outputs ==
    UNION { { [output |-> Encode(T, v), abi_type |-> A] :
                A \in {T} \cup (IF T = <<>> THEN {<<"uint256">>} ELSE {Tail(T)}) } :
            T \in TypeSeqs, v \in 1..2 }

CallFromAbiDict == from_abi_dict(CallAbi, <<"abis", "Token.json">>)

CallAt == \E n \in Addresses : registry[n] = 0 /\ at(1, RawAddress(n, "hex"))

\* The caller has taken the value or caught the error.
CallerContinues ==
    /\ last.op = "marshal_to_python"
    /\ last' = [op |-> "idle"]
    /\ UNCHANGED <<descs, warned, factories, code, registry, contracts, fnContract,
                   cache, build, lock, tpc, tval, maps>>

MarshalOutput ==
    \E c \in DOMAIN contracts, o \in Outputs :
        Marshal(c, Computation(FALSE, o.output, <<0, 0, 0, 2>>,
                               contracts[c].address.n, <<>>), o.abi_type)

MarshalError ==
    \E c \in DOMAIN contracts, data \in TopData, ch \in TopChildren :
        Marshal(c, Computation(TRUE, NoOutput, data, contracts[c].address.n, ch),
                <<"uint256">>)

CallNext == CallFromAbiDict \/ CallAt \/ MarshalError \/ CallerContinues

\* Every address hosts bytecode: an address is unregistered until it is bound.
CallInit == NoObjects /\ code = Addresses /\ build = "lockfree"

CallSpec == CallInit /\ [][CallNext]_vars

OutputAt == contracts = <<>> /\ \E n \in Addresses : at(1, RawAddress(n, "hex"))

OutputNext == CallFromAbiDict \/ OutputAt \/ MarshalOutput \/ CallerContinues

OutputSpec == CallInit /\ [][OutputNext]_vars

----------------------------------------------------------------------------
(* Specification of threads: first accesses to one contract's
   method_id_map, step by step through cached_property.__get__ *)

\* functools.cached_property takes a lock around the body in some
\* interpreter versions and none in others.
Builds == {"locking", "lockfree"}

Holds(t, pc) == tpc[t] = pc /\ tval[t].contract # 0

ThreadFrame == <<descs, warned, factories, code, registry, contracts, fnContract,
                 last, build>>

\* Thread t evaluates c.method_id_map.
TBegin(t, c) ==
    /\ tpc[t] = "idle"
    /\ c \in DOMAIN contracts
    /\ contracts[c].live
    /\ tpc' = [tpc EXCEPT ![t] = "check"]
    /\ tval' = [tval EXCEPT ![t] = [contract |-> c, val |-> NoMap]]
    /\ UNCHANGED <<ThreadFrame, lock, cache, maps>>

\* val = cache.get(attrname, _NOT_FOUND)
TCheck(t) ==
    /\ Holds(t, "check")
    /\ LET c == tval[t].contract
       IN IF cache[c] # NoMap
          THEN /\ tval' = [tval EXCEPT ![t].val = cache[c]]
               /\ tpc' = [tpc EXCEPT ![t] = "done"]
          ELSE /\ tval' = tval
               /\ tpc' = [tpc EXCEPT ![t] =
                            IF build = "locking" THEN "acquire" ELSE "compute"]
    /\ UNCHANGED <<ThreadFrame, lock, cache, maps>>

\* with self.lock:
TAcquire(t) ==
    /\ Holds(t, "acquire")
    /\ lock = 0
    /\ lock' = t
    /\ tpc' = [tpc EXCEPT ![t] = "recheck"]
    /\ UNCHANGED <<ThreadFrame, tval, cache, maps>>

\* The second look at the cache, under the lock.
TRecheck(t) ==
    /\ Holds(t, "recheck")
    /\ LET c == tval[t].contract
       IN IF cache[c] # NoMap
          THEN /\ tval' = [tval EXCEPT ![t].val = cache[c]]
               /\ tpc' = [tpc EXCEPT ![t] = "release"]
          ELSE /\ tval' = tval
               /\ tpc' = [tpc EXCEPT ![t] = "compute"]
    /\ UNCHANGED <<ThreadFrame, lock, cache, maps>>

\* val = self.func(instance): the body of method_id_map builds a new dict.
TCompute(t) ==
    /\ Holds(t, "compute")
    /\ LET c == tval[t].contract
       IN /\ maps' = Append(maps, [owner |-> c, map |-> method_id_map_body(contracts[c])])
          /\ tval' = [tval EXCEPT ![t].val = Len(maps) + 1]
    /\ tpc' = [tpc EXCEPT ![t] = "store"]
    /\ UNCHANGED <<ThreadFrame, lock, cache>>

\* cache[attrname] = val
TStore(t) ==
    /\ Holds(t, "store")
    /\ cache' = [cache EXCEPT ![tval[t].contract] = tval[t].val]
    /\ tpc' = [tpc EXCEPT ![t] = IF build = "locking" THEN "release" ELSE "done"]
    /\ UNCHANGED <<ThreadFrame, lock, tval, maps>>

\* Leaving the with block.
TRelease(t) ==
    /\ Holds(t, "release")
    /\ lock = t
    /\ lock' = 0
    /\ tpc' = [tpc EXCEPT ![t] = "done"]
    /\ UNCHANGED <<ThreadFrame, tval, cache, maps>>

ThreadInit == NoObjects /\ code = Addresses /\ build \in Builds

Begin == \E t \in Threads, c \in DOMAIN contracts : TBegin(t, c)
Check == \E t \in Threads : TCheck(t)
Acquire == \E t \in Threads : TAcquire(t)
Recheck == \E t \in Threads : TRecheck(t)
Compute == \E t \in Threads : TCompute(t)
Store == \E t \in Threads : TStore(t)
Release == \E t \in Threads : TRelease(t)

ThreadNext ==
    \/ CallFromAbiDict \/ OutputAt
    \/ Begin \/ Check \/ Acquire \/ Recheck \/ Compute \/ Store \/ Release

ThreadSpec == ThreadInit /\ [][ThreadNext]_vars

----------------------------------------------------------------------------
(* Claims about binding and the function tables *)

LiveContracts == {c \in DOMAIN contracts : contracts[c].live}

\* The descriptors of contract c that carry name nm, in list order.
Carrying(c, nm) ==
    SelectSeq(contracts[c].functions, LAMBDA d : descs[d].name = nm)

NamesOf(c) == {descs[d].name : d \in Range(contracts[c].functions)}

MethodIdsOf(c) == {descs[d].method_id : d \in Range(contracts[c].functions)}

\* C1: at(address) raises the missing-bytecode error, returns no contract
\* and leaves the registry as it was when the address hosts no bytecode;
\* otherwise it returns a contract bound to the normalized address, and the
\* registry then maps that address to exactly that contract.
C1_AtChecksBytecode ==
    last.op = "at" =>
        LET n == last.address.n
            c == last.contract
        IN IF n \notin code
           THEN /\ last.outcome = "ValueError"
                /\ registry = last.registry_before
                /\ c \notin LiveContracts
           ELSE /\ last.outcome = "return"
                /\ c \in LiveContracts
                /\ contracts[c].address = [n |-> n, form |-> "Address"]
                /\ registry[n] = c

\* An at() that failed while the registry already held a contract bound by
\* an earlier, successful at().
C1_Witness ==
    /\ last.op = "at"
    /\ last.outcome = "ValueError"
    /\ \E n \in Addresses : registry[n] # 0 /\ registry[n] \in LiveContracts

\* C2: every name carried by one descriptor is exposed as that descriptor,
\* every name carried by k >= 2 descriptors as an overload set of exactly
\* those k descriptors, whatever the order of the ABI entries.
C2_ExposedByName ==
    \A c \in LiveContracts : \A nm \in NamesOf(c) :
        LET ds == Carrying(c, nm)
            e == contracts[c].attrs[nm]
        IN /\ nm \in DOMAIN contracts[c].attrs
           /\ e.functions = ds
           /\ e.kind = IF Len(ds) = 1 THEN "ABIFunction" ELSE "ABIOverload"

\* The map object the last read of method_id_map returned.
LastMap == maps[last.value].map

\* C3 as stated: one entry per distinct method id, each mapped to a
\* descriptor with that id, as many entries as descriptors, and every read
\* returns the map of the first read.
C3_SizeIsDescriptorCount ==
    last.op = "method_id_map" =>
        /\ DOMAIN LastMap = MethodIdsOf(last.contract)
        /\ \A k \in DOMAIN LastMap :
              /\ LastMap[k] \in Range(contracts[last.contract].functions)
              /\ descs[LastMap[k]].method_id = k
        /\ Cardinality(DOMAIN LastMap) = Len(contracts[last.contract].functions)
        /\ Cardinality({i \in DOMAIN maps : maps[i].owner = last.contract}) = 1

PairwiseDistinctIds(c) ==
    \A i, j \in DOMAIN contracts[c].functions :
        i # j => descs[contracts[c].functions[i]].method_id
                 # descs[contracts[c].functions[j]].method_id

\* C3 amended: one entry per distinct method id, each mapped to a
\* descriptor with that id; the size is the number of distinct method ids,
\* which is the number of descriptors exactly when their method ids are
\* pairwise distinct; every read returns the one map built by the first.
C3_OneEntryPerMethodId ==
    last.op = "method_id_map" =>
        /\ DOMAIN LastMap = MethodIdsOf(last.contract)
        /\ \A k \in DOMAIN LastMap :
              /\ LastMap[k] \in Range(contracts[last.contract].functions)
              /\ descs[LastMap[k]].method_id = k
        /\ (Cardinality(DOMAIN LastMap) = Len(contracts[last.contract].functions))
              <=> PairwiseDistinctIds(last.contract)
        /\ Cardinality({i \in DOMAIN maps : maps[i].owner = last.contract}) = 1
        /\ cache[last.contract] = last.value

\* A repeated read of the map of a contract with three descriptors, two of
\* which share a method id.
C3_Witness ==
    /\ last.op = "method_id_map"
    /\ ~last.first
    /\ Len(contracts[last.contract].functions) = 3
    /\ Cardinality(DOMAIN LastMap) = 2

\* The method ids an exposed attribute stands for.
ExposedIds(c, nm) ==
    [i \in DOMAIN contracts[c].attrs[nm].functions |->
        descs[contracts[c].attrs[nm].functions[i]].method_id]

SameTable(c1, c2) ==
    /\ DOMAIN contracts[c1].attrs = DOMAIN contracts[c2].attrs
    /\ \A nm \in DOMAIN contracts[c1].attrs :
          /\ contracts[c1].attrs[nm].kind = contracts[c2].attrs[nm].kind
          /\ ExposedIds(c1, nm) = ExposedIds(c2, nm)
    /\ MethodIdsOf(c1) = MethodIdsOf(c2)

\* C8: c.deployer carries c's name and descriptor list and no address, and
\* c.deployer.at(c.address) succeeds, when the address hosts bytecode, with
\* a contract whose function table has the contents of c's.
C8_DeployerRoundTrip ==
    /\ last.op = "deployer" =>
          LET F == factories[last.factory]
              c == contracts[last.contract]
          IN /\ F.name = c.name
             /\ F.functions = c.functions
             /\ "address" \notin DOMAIN F
    /\ last.op = "at" =>
          \A c \in LiveContracts \ {last.contract} :
              LET F == factories[last.factory]
              IN (/\ F.filename = None
                  /\ F.name = contracts[c].name
                  /\ F.functions = contracts[c].functions
                  /\ last.address = contracts[c].address
                  /\ contracts[c].address.n \in code)
                 => /\ last.outcome = "return"
                    /\ SameTable(c, last.contract)

\* c.deployer.at(c.address) has just returned, for a contract c that
\* exposes an overload set.
C8_Witness ==
    /\ last.op = "at"
    /\ last.outcome = "return"
    /\ factories[last.factory].filename = None
    /\ \E c \in LiveContracts \ {last.contract} :
          /\ last.address = contracts[c].address
          /\ \E nm \in DOMAIN contracts[c].attrs :
                contracts[c].attrs[nm].kind = "ABIOverload"

\* C9: whatever at() calls came later, every function and overload set a
\* contract exposes calls back into that contract.
C9_BoundToSelf ==
    \A c \in LiveContracts : \A nm \in DOMAIN contracts[c].attrs :
        BoundContract(c, nm) = c

----------------------------------------------------------------------------
(* Claims about marshalling and stack traces *)

Marshalled == last.op = "marshal_to_python"

\* C4: when the computation succeeded and decode succeeds, the result has
\* the length and order of the type tags; a position tagged "address"
\* holds the Address of the decoded value, one tagged "address[]" the list
\* of the Addresses of the decoded elements, any other the decoded value.
C4_MarshalWrapsAddresses ==
    (Marshalled /\ ~last.computation.is_error
       /\ last.computation.output.types = last.abi_type) =>
        LET T == last.abi_type
            raw == last.computation.output.values
            out == last.outcome
        IN /\ out.kind = "return"
           /\ Len(out.value) = Len(T)
           /\ \A i \in DOMAIN T :
                 CASE T[i] = "address" ->
                        out.value[i] = [n |-> raw[i].n, form |-> "Address"]
                   [] T[i] = "address[]" ->
                        /\ out.value[i].form = "list"
                        /\ Len(out.value[i].items) = Len(raw[i].items)
                        /\ \A j \in DOMAIN raw[i].items :
                              out.value[i].items[j]
                                 = [n |-> raw[i].items[j].n, form |-> "Address"]
                   [] OTHER -> out.value[i] = raw[i]

\* A returned pair: a non-empty address[] next to a fixed-size address array.
C4_Witness ==
    /\ Marshalled
    /\ last.outcome.kind = "return"
    /\ last.abi_type = <<"address[]", "address[2]">>
    /\ Len(last.outcome.value[1].items) = 2

\* C5: for a computation with is_error set, marshal_to_python does not call
\* decode and returns nothing: it raises the structured error whose payload
\* is the trace this contract's stack_trace builds for the computation (a
\* trace that ends with this contract's own line).
C5_ErrorRaisesTrace ==
    (Marshalled /\ last.computation.is_error) =>
        /\ last.outcome.kind = "raise"
        /\ last.outcome.error = "BoaError"
        /\ ~last.outcome.decoded
        /\ last.outcome.value = stack_trace(last.contract, last.computation)
        /\ Len(last.outcome.value) >= 1
        /\ last.outcome.value[Len(last.outcome.value)].contract.address
              = contracts[last.contract].address

\* A failed computation with a failing child has been marshalled.
C5_Witness ==
    /\ Marshalled
    /\ last.computation.is_error
    /\ FailingChild(last.computation) # 0
    /\ last.outcome.kind = "raise"

RECURSIVE Chain(_)
\* The failed computation and the failing calls nested in it, outermost first.
Chain(computation) ==
    <<computation>> \o
    (IF FailingChild(computation) = 0 THEN <<>>
     ELSE Chain(computation.children[FailingChild(computation)]))

\* The contract that handles the k-th call of the chain: the marshalling
\* contract for the outer call, the registered contract of the target
\* address below it (0: none).
Handler(chain, k) == IF k = 1 THEN last.contract ELSE registry[chain[k].code_address]

\* The line of the k-th call of the chain in a trace of the whole chain.
LineOf(trace, chain, k) == trace[Len(chain) - k + 1]

\* The first four bytes of a call input, fewer when it is shorter.
Prefix4(data) == [i \in 1..(IF Len(data) < 4 THEN Len(data) ELSE 4) |-> data[i]]

\* C6: the line a contract contributes for a failed computation it handles
\* names the contract and, when the first 4 bytes of the call input are a
\* key of its method_id_map, the resolved descriptor's full signature
\* ("unknown location in"), otherwise the hex method id ("unknown method
\* id"); without a failing child that line is the first of the trace.
C6_LineByMethodId ==
    (Marshalled /\ last.computation.is_error /\ last.outcome.kind = "raise") =>
        LET trace == last.outcome.value
            chain == Chain(last.computation)
        IN /\ Len(trace) >= 1
           /\ \A k \in DOMAIN chain :
                 (Handler(chain, k) # 0 /\ Len(trace) = Len(chain)) =>
                    LET h == Handler(chain, k)
                        m == maps[cache[h]].map
                        id == Prefix4(chain[k].data)
                        line == LineOf(trace, chain, k)
                    IN /\ cache[h] # NoMap
                       /\ line.contract = [name |-> contracts[h].name,
                                           address |-> contracts[h].address,
                                           filename |-> contracts[h].filename]
                       /\ IF id \in DOMAIN m
                          THEN /\ line.marker = "unknown location in"
                               /\ line.detail = descs[m[id]].full_signature
                          ELSE /\ line.marker = "unknown method id"
                               /\ line.detail = <<"0x">> \o hex(id)
           /\ FailingChild(last.computation) = 0 =>
                 /\ Len(trace) = 1
                 /\ trace[1].contract.address = contracts[last.contract].address

\* A failed call without failing child whose selector is shared by two
\* descriptors: the line names the later one.
C6_Witness ==
    /\ Marshalled
    /\ last.computation.is_error
    /\ last.outcome.kind = "raise"
    /\ last.computation.data = <<0, 0, 1, 0>>
    /\ FailingChild(last.computation) = 0
    /\ last.outcome.value[1].detail = <<"burn", "uint256">>

\* C7: the trace of a chain of n nested failing calls has n lines, the
\* innermost call's first and the outer call's last; the line of a call
\* whose target is registered is the one that contract's stack_trace
\* contributes, the line of a call whose target is unregistered is the
\* generic marker.
C7_OneLinePerNestedCall ==
    (Marshalled /\ last.computation.is_error /\ last.outcome.kind = "raise") =>
        LET trace == last.outcome.value
            chain == Chain(last.computation)
        IN /\ Len(trace) = Len(chain)
           /\ \A k \in DOMAIN chain :
                 LET h == Handler(chain, k)
                     line == LineOf(trace, chain, k)
                 IN IF h = 0
                    THEN /\ line.marker = "unknown contract"
                         /\ line.contract.n = chain[k].code_address
                    ELSE /\ line.marker \in {"unknown location in", "unknown method id"}
                         /\ line.contract.address = contracts[h].address
                         /\ line = stack_trace(h, chain[k])[Len(chain) - k + 1]

\* An outer call failing through an unregistered target back into a
\* registered one: three lines.
C7_Witness ==
    /\ Marshalled
    /\ last.computation.is_error
    /\ last.outcome.kind = "raise"
    /\ Len(last.outcome.value) = 3
    /\ last.outcome.value[2].marker = "unknown contract"
    /\ last.outcome.value[1].marker = "unknown location in"

----------------------------------------------------------------------------
(* Claim about concurrent first accesses *)

\* C10: under any interleaving of first accesses from several threads the
\* map of a contract is built at most once, and all readers get that map.
C10_BuiltAtMostOnce ==
    /\ \A c \in DOMAIN contracts :
          Cardinality({i \in DOMAIN maps : maps[i].owner = c}) <= 1
    /\ \A t, u \in Threads :
          (tpc[t] = "done" /\ tpc[u] = "done"
             /\ tval[t].contract = tval[u].contract) => tval[t].val = tval[u].val

====
